---- MODULE Spec2Model ----
(***************************************************************************)
(* ResourceDownloadDialog (launcher/ui/dialogs/ResourceDownloadDialog.cpp): *)
(* the selection store m_selected, the is_currently_selected flags of the  *)
(* versions, addResource / removeResource, and confirm() with its          *)
(* dependency task, its review plan and the reviewer's deselections.       *)
(*                                                                         *)
(* A version object is identified by (pack, version id); its               *)
(* is_currently_selected flag is flag[pack][ver].  A QString is a sequence *)
(* of code points.  confirm() blocks twice in a nested modal event loop    *)
(* (the progress dialog, the review dialog); it is cut into one action per *)
(* stretch of code between those points.                                   *)
(***************************************************************************)
EXTENDS Integers, Sequences, FiniteSets, TLC

VARIABLES
    kind,           \* which subclass the dialog is
    supportsFlame,  \* APPLICATION->capabilities() & Application::SupportsFlame
    m_selected,     \* name -> download task, NoTask where the map has no key
    flag,           \* flag[p][v]: is_currently_selected of version v of pack p
    okEnabled,      \* m_buttons.button(Ok)->isEnabled()
    pc,             \* where the dialog is: idle, resolving, review, rejectQueued, closed
    dialogResult,   \* QDialog result: none, accepted, rejected
    faulted,        \* a null page pointer was dereferenced and the process died
    request,        \* selectedVers handed to the GetModDependenciesTask
    plan,           \* rows appended to the ReviewMessageBox of this attempt
    active,         \* activations of confirm() that have not returned
    taskRuns,       \* dependency tasks started and not finished
    attempts,       \* confirm() calls so far
    outcome,        \* outcome of the dependency task of the last attempt
    deps,           \* task->getDependecies() of the last attempt
    shownBox,       \* message box confirm() showed for that task: none, Error, Warnings
    attemptResult,  \* how the last attempt ended
    preStore,       \* m_selected when the last attempt began
    preFlag,        \* flag when the last attempt began
    reviewStore,    \* m_selected when the plan was handed to review
    deselected,     \* confirm_dialog->deselectedResources() of the last accepted review
    lastOp,         \* last addResource / removeResource call made by a page
    reqArg,         \* req_by of the last getReqiredBy call on the present store
    reqResult       \* what that call returned

vars == << kind, supportsFlame, m_selected, flag, okEnabled, pc, dialogResult,
           faulted, request, plan, active, taskRuns, attempts, outcome, deps,
           shownBox, attemptResult, preStore, preFlag, reviewStore, deselected, lastOp,
           reqArg, reqResult >>

----------------------------------------------------------------------------
(* Bounds *)

\* longest list of dependencies the task returns
MaxDeps == 2

\* confirm() calls in one run of the dialog
MaxAttempts == 2

----------------------------------------------------------------------------
(* Data *)

Modrinth == "modrinth"
Flame == "flame"

\* "Zb", "a", "zb" as code points
NameZb == << 90, 98 >>
NameA == << 97 >>
Namezb == << 122, 98 >>
Names == { NameZb, NameA, Namezb }

\* ModPlatform::IndexedPack: provider, addonId, name.  Two packs of different
\* providers share the name "Zb".
Pack(p) ==
    CASE p = 1 -> [ provider |-> Modrinth, addonId |-> 1, name |-> NameZb ]
      [] p = 2 -> [ provider |-> Flame, addonId |-> 2, name |-> NameZb ]
      [] p = 3 -> [ provider |-> Modrinth, addonId |-> 3, name |-> NameA ]
      [] p = 4 -> [ provider |-> Modrinth, addonId |-> 4, name |-> Namezb ]

PackIds == 1 .. 4

\* IndexedPack::versions: pack 1 has two versions, the others one
VersionsOf(p) == IF p = 1 THEN 1 .. 2 ELSE 1 .. 1

\* the version objects, << pack, version id >>
PV == UNION { { << p, v >> : v \in VersionsOf(p) } : p \in PackIds }

\* IndexedVersion::required_by as the dependency task fills it in for a version
\* it returns: the addon ids of the packs that need it (9 is no pack's id)
requiredBy(p, v) ==
    CASE p = 1 -> IF v = 1 THEN << >> ELSE << 3 >>
      [] p = 2 -> << >>
      [] p = 3 -> << 9, 1 >>
      [] p = 4 -> << 1, 3 >>

NoTask == [ none |-> TRUE ]

\* ResourceDownloadTask(pack, ver, getBaseModel(), is_indexed)
Task(p, v, is_indexed, req) ==
    [ pack |-> p, ver |-> v, is_indexed |-> is_indexed, required_by |-> req ]

DialogKinds == { "mod", "resourcepack", "texturepack", "shaderpack" }

\* getPages() of the four subclasses: the providers whose page the container holds
getPages(k, flameOk) ==
    IF k = "shaderpack" THEN { Modrinth }
    ELSE IF flameOk THEN { Modrinth, Flame } ELSE { Modrinth }

pages == getPages(kind, supportsFlame)

\* every dialog creates a dependency task
hasDependenciesTask_Always(k) == TRUE

\* getModDependenciesTask(): a task for a ModFolderModel, nullptr otherwise
hasDependenciesTask(k) == k = "mod"

----------------------------------------------------------------------------
(* QString order *)

toLower(c) == IF c >= 65 /\ c <= 90 THEN c + 32 ELSE c

RECURSIVE Less(_, _, _)
\* lexicographic s < t, code points mapped by fold
Less(s, t, fold) ==
    IF t = << >> THEN FALSE
    ELSE IF s = << >> THEN TRUE
    ELSE IF fold[Head(s)] # fold[Head(t)] THEN fold[Head(s)] < fold[Head(t)]
    ELSE Less(Tail(s), Tail(t), fold)

Chars == 0 .. 127
CaseSensitive == [ c \in Chars |-> c ]
CaseInsensitive == [ c \in Chars |-> toLower(c) ]

\* m_selected.keys(), taken in ascending (case-sensitive) order.  confirm() sorts
\* the list again and getReqiredBy stops at the one task of an addon id, so the
\* order of the container does not show.
RECURSIVE Ascending(_)
Ascending(S) ==
    IF S = {} THEN << >>
    ELSE LET m == CHOOSE x \in S : \A y \in S \ { x } : Less(x, y, CaseSensitive)
         IN  << m >> \o Ascending(S \ { m })

keysOf(sel) == { n \in Names : sel[n] # NoTask }
keys(sel) == Ascending(keysOf(sel))

Perms(S) ==
    { q \in [ 1 .. Cardinality(S) -> S ] : \A x \in S : \E i \in DOMAIN q : q[i] = x }

\* QStringList::sort(cs): std::sort under the comparison of cs, which leaves
\* the order of keys that compare equal unspecified
sorted(ks, fold) ==
    { q \in Perms({ ks[i] : i \in DOMAIN ks }) :
        \A i \in 1 .. Len(q) - 1 : ~ Less(q[i + 1], q[i], fold) }

----------------------------------------------------------------------------
(* The selection store *)

\* The part of the dialog that addResource and removeResource read and write
Store(sel, f, ok, dead) == [ sel |-> sel, flag |-> f, ok |-> ok, faulted |-> dead ]

\* ResourcePage::removeResourceFromPage(name): the page deselects every version
\* of its pack of that name ("all versions of that pack got removed")
removeResourceFromPage(f, page, name) ==
    [ pv \in PV |->
        IF Pack(pv[1]).provider = page /\ Pack(pv[1]).name = name THEN FALSE ELSE f[pv] ]

\* dynamic_cast<ResourcePage*>(m_container->getPage(id))->removeResourceFromPage(name).
\* getPage yields a null pointer for a page the container does not hold, and the
\* call through it is undefined: the process dies there, or the call does nothing.
callPage(s, page, name) ==
    IF s.faulted THEN { s }
    ELSE IF page \in pages
    THEN { [ s EXCEPT !.flag = removeResourceFromPage(s.flag, page, name) ] }
    ELSE { [ s EXCEPT !.faulted = TRUE ], s }

\* removeResource without its two calls to the pages
removeResource_NoPages(s, p, v) ==
    LET sel == [ s.sel EXCEPT ![Pack(p).name] = NoTask ]
    IN  { Store(sel, [ s.flag EXCEPT ![<< p, v >>] = FALSE ], keysOf(sel) # {}, FALSE) }

\* ResourceDownloadDialog::removeResource(pack, ver): the states it can end in
removeResource(s, p, v) ==
    LET name == Pack(p).name
        afterPages == UNION { callPage(t, Flame, name) : t \in callPage(s, Modrinth, name) }
    IN  { IF t.faulted THEN t
          ELSE LET sel == [ t.sel EXCEPT ![name] = NoTask ]
               IN  Store(sel, [ t.flag EXCEPT ![<< p, v >>] = FALSE ], keysOf(sel) # {}, FALSE)
          : t \in afterPages }

\* addResource without its call of removeResource
addResource_NoRemove(s, p, v, is_indexed, req) ==
    LET sel == [ s.sel EXCEPT ![Pack(p).name] = Task(p, v, is_indexed, req) ]
    IN  { Store(sel, [ s.flag EXCEPT ![<< p, v >>] = TRUE ], keysOf(sel) # {}, s.faulted) }

\* addResource as a toggle: adding the version that is selected only removes it
addResource_Toggle(s, p, v, is_indexed, req) ==
    { IF t.faulted \/ s.sel[Pack(p).name] = Task(p, v, is_indexed, req) THEN t
      ELSE LET sel == [ t.sel EXCEPT ![Pack(p).name] = Task(p, v, is_indexed, req) ]
           IN  Store(sel, [ t.flag EXCEPT ![<< p, v >>] = TRUE ], keysOf(sel) # {}, FALSE)
      : t \in removeResource(s, p, v) }

\* ResourceDownloadDialog::addResource(pack, ver, is_indexed); req is ver.required_by
addResource(s, p, v, is_indexed, req) ==
    { IF t.faulted THEN t
      ELSE LET sel == [ t.sel EXCEPT ![Pack(p).name] = Task(p, v, is_indexed, req) ]
           IN  Store(sel, [ t.flag EXCEPT ![<< p, v >>] = TRUE ], keysOf(sel) # {}, FALSE)
      : t \in removeResource(s, p, v) }

\* ResourceDownloadDialog::getTasks(): m_selected.values()
getTasks == { m_selected[n] : n \in keysOf(m_selected) }

current == Store(m_selected, flag, okEnabled, faulted)

NoOp == [ op |-> "none" ]
Op(op, p, v) == [ op |-> op, pack |-> p, ver |-> v, old |-> m_selected[Pack(p).name] ]

----------------------------------------------------------------------------
(* The state after construction *)

Init ==
    /\ kind \in DialogKinds
    /\ supportsFlame \in BOOLEAN
    /\ m_selected = [ n \in Names |-> NoTask ]
    /\ flag = [ pv \in PV |-> FALSE ]
    /\ okEnabled = FALSE
    /\ pc = "idle"
    /\ dialogResult = "none"
    /\ faulted = FALSE
    /\ request = {}
    /\ plan = << >>
    /\ active = 0
    /\ taskRuns = 0
    /\ attempts = 0
    /\ outcome = "none"
    /\ deps = << >>
    /\ shownBox = "none"
    /\ attemptResult = "none"
    /\ preStore = [ n \in Names |-> NoTask ]
    /\ preFlag = [ pv \in PV |-> FALSE ]
    /\ reviewStore = [ n \in Names |-> NoTask ]
    /\ deselected = {}
    /\ lastOp = NoOp
    /\ reqArg = << >>
    /\ reqResult = << >>

\* a dialog that takes clicks while a modal dialog of confirm() is open
acceptsInput_Always == pc \in { "idle", "resolving", "review" }

\* The dialog takes clicks and shortcuts only while none of the modal dialogs
\* confirm() executes (progress_dialog.execWithTask, confirm_dialog->exec) is open
acceptsInput == pc = "idle"

\* what confirm() alone writes
attemptVars == << request, plan, active, taskRuns, attempts, outcome, deps,
                  shownBox, attemptResult, preStore, preFlag, reviewStore, deselected >>

EmptyStore == [ n \in Names |-> NoTask ]
NoFlags == [ pv \in PV |-> FALSE ]

\* The next click on a page ends the record of the attempt that came before it
forgetAttempt ==
    /\ attemptResult' = "none"
    /\ preStore' = EmptyStore
    /\ preFlag' = NoFlags
    /\ reviewStore' = EmptyStore
    /\ UNCHANGED << request, plan, active, taskRuns, attempts, outcome, deps,
                    shownBox, deselected >>

\* a change of the store ends the record of the call made on the store before it
forgetCall == reqArg' = << >> /\ reqResult' = << >>

\* A page calls addResource for one of its packs (the user selects a version)
AddSelection(p, v) ==
    /\ acceptsInput /\ ~ faulted
    /\ Pack(p).provider \in pages
    /\ \E t \in addResource(current, p, v, FALSE, << >>) :
        /\ m_selected' = t.sel
        /\ flag' = t.flag
        /\ okEnabled' = t.ok
        /\ faulted' = t.faulted
    /\ lastOp' = Op("add", p, v)
    /\ forgetAttempt
    /\ forgetCall
    /\ UNCHANGED << kind, supportsFlame, pc, dialogResult >>

\* A page calls removeResource for one of its packs (the user deselects a version)
RemoveSelection(p, v) ==
    /\ acceptsInput /\ ~ faulted
    /\ Pack(p).provider \in pages
    /\ \E t \in removeResource(current, p, v) :
        /\ m_selected' = t.sel
        /\ flag' = t.flag
        /\ okEnabled' = t.ok
        /\ faulted' = t.faulted
    /\ lastOp' = Op("remove", p, v)
    /\ forgetAttempt
    /\ forgetCall
    /\ UNCHANGED << kind, supportsFlame, pc, dialogResult >>

NextStore ==
    \/ \E pv \in PV : AddSelection(pv[1], pv[2])
    \/ \E pv \in PV : RemoveSelection(pv[1], pv[2])

\* The dialog under addResource and removeResource calls alone
SpecStore == Init /\ [][NextStore]_vars

----------------------------------------------------------------------------
(* confirm() *)

\* GetModDependenciesTask::PackDependency: pack, version and its required_by
Dep == { [ pack |-> pv[1], ver |-> pv[2], required_by |-> requiredBy(pv[1], pv[2]) ] : pv \in PV }

\* the lists of dependencies a task can hold: distinct packs, at most MaxDeps
DepLists ==
    UNION { { ds \in [ 1 .. n -> Dep ] :
                \A i, j \in 1 .. n : i # j => ds[i].pack # ds[j].pack }
            : n \in 0 .. MaxDeps }

\* The outcomes of the dependency task
Outcomes == { "Succeeded", "Failed", "Aborted" }

\* execWithTask that reports a failed task like a finished one
execWithTask_FailedAccepted(o) == IF o = "Aborted" THEN "Rejected" ELSE "Accepted"

\* execWithTask whose result is Accepted whatever the task did
execWithTask_AlwaysAccepted(o) == "Accepted"

\* progress_dialog.execWithTask(task): Rejected when "the dialog was skipped /
\* some download error happened", Accepted when the task succeeded
execWithTask(o) == IF o = "Succeeded" THEN "Accepted" ELSE "Rejected"

\* getModDependenciesTask(): selectedVers, the (pack, version) of every task
selectedVers(sel) == { << sel[n].pack, sel[n].ver >> : n \in keysOf(sel) }

\* the name of the pack with addon id r, whether the store holds it or not
firstSelected_Unselected(sel, ks, r) ==
    LET ps == { p \in PackIds : Pack(p).addonId = r }
    IN  IF ps = {} THEN << >> ELSE << Pack(CHOOSE p \in ps : TRUE).name >>

RECURSIVE firstSelected(_, _, _)
\* inner loop of getReqiredBy: the name of the first key whose pack has addon id r
firstSelected(sel, ks, r) ==
    IF ks = << >> THEN << >>
    ELSE IF Pack(sel[Head(ks)].pack).addonId = r THEN << Pack(sel[Head(ks)].pack).name >>
    ELSE firstSelected(sel, Tail(ks), r)

\* the loops of getReqiredBy swapped: the names come in the order of the keys
getReqiredBy_KeyOrder(sel, req_by) ==
    SelectSeq(keys(sel),
              LAMBDA n : \E i \in DOMAIN req_by : Pack(sel[n].pack).addonId = req_by[i])

RECURSIVE getReqiredBy(_, _)
\* ResourceDownloadDialog::getReqiredBy(req_by)
getReqiredBy(sel, req_by) ==
    IF req_by = << >> THEN << >>
    ELSE firstSelected(sel, keys(sel), Head(req_by)) \o getReqiredBy(sel, Tail(req_by))

\* longest req_by list handed to getReqiredBy on its own
MaxReq == 2

\* addon ids a version can name as requiring it: those of the packs and a foreign one
AddonIds == { Pack(p).addonId : p \in PackIds } \cup { 9 }

ReqLists == UNION { [ 1..n -> AddonIds ] : n \in 0..MaxReq }

\* getReqiredBy(req_by) is called on the present store; one call is recorded
\* for each store
CallGetReqiredBy(req_by) ==
    /\ ~ faulted
    /\ reqArg = << >>
    /\ reqArg' = req_by
    /\ reqResult' = getReqiredBy(m_selected, req_by)
    /\ UNCHANGED << kind, supportsFlame, m_selected, flag, okEnabled, pc, dialogResult,
                    faulted, lastOp >>
    /\ UNCHANGED attemptVars

NextReqiredBy ==
    \/ \E pv \in PV : AddSelection(pv[1], pv[2])
    \/ \E pv \in PV : RemoveSelection(pv[1], pv[2])
    \/ \E req_by \in ReqLists : CallGetReqiredBy(req_by)

\* getReqiredBy applied to every store addResource and removeResource can build
SpecReqiredBy == Init /\ [][NextReqiredBy]_vars

\* one appendResource call: name, filename, provider name, required_by
Row(sel, n) ==
    [ name |-> n,
      filename |-> << sel[n].pack, sel[n].ver >>,
      provider |-> Pack(sel[n].pack).provider,
      required_by |-> getReqiredBy(sel, sel[n].required_by) ]

\* the rows with keys.sort() left at its default, Qt::CaseSensitive
reviewRows_CaseSensitive(sel) ==
    { [ i \in DOMAIN ks |-> Row(sel, ks[i]) ] : ks \in sorted(keys(sel), CaseSensitive) }

\* the rows confirm() appends: the keys, sorted without regard to case
reviewRows(sel) ==
    { [ i \in DOMAIN ks |-> Row(sel, ks[i]) ] : ks \in sorted(keys(sel), CaseInsensitive) }

RECURSIVE mergeDependencies_KeepSelected(_, _)
\* the merge that leaves a name alone once the store has a task for it
mergeDependencies_KeepSelected(S, ds) ==
    IF ds = << >> THEN S
    ELSE mergeDependencies_KeepSelected(
            UNION { IF s.sel[Pack(Head(ds).pack).name] # NoTask THEN { s }
                    ELSE addResource(s, Head(ds).pack, Head(ds).ver, TRUE, Head(ds).required_by)
                    : s \in S },
            Tail(ds))

RECURSIVE mergeDependencies(_, _)
\* for (auto dep : task->getDependecies()) addResource(dep->pack, dep->version, true)
mergeDependencies(S, ds) ==
    IF ds = << >> THEN S
    ELSE mergeDependencies(
            UNION { addResource(s, Head(ds).pack, Head(ds).ver, TRUE, Head(ds).required_by)
                    : s \in S },
            Tail(ds))

\* the loop that keeps the deselected names and removes the others
removeDeselected_Inverted(sel, D) == [ n \in Names |-> IF n \in D THEN sel[n] ELSE NoTask ]

\* for (auto name : deselected) m_selected.remove(name)
removeDeselected(sel, D) == [ n \in Names |-> IF n \in D THEN NoTask ELSE sel[n] ]

\* the deselections applied whether or not the review was accepted
applyReview_Always(sel, accepted, D) == removeDeselected(sel, D)

\* if (confirm_dialog->exec()) { remove the deselected names }
applyReview(sel, accepted, D) == IF accepted THEN removeDeselected(sel, D) ELSE sel

\* The Ok button is clicked: confirm() up to the point where it first blocks
ConfirmClicked ==
    /\ acceptsInput /\ ~ faulted
    /\ okEnabled
    /\ attempts < MaxAttempts
    /\ attempts' = attempts + 1
    /\ active' = active + 1
    /\ preStore' = m_selected
    /\ preFlag' = flag
    /\ outcome' = "none"
    /\ deps' = << >>
    /\ shownBox' = "none"
    /\ attemptResult' = "none"
    /\ deselected' = {}
    /\ lastOp' = NoOp
    /\ IF hasDependenciesTask(kind)
       THEN /\ request' = selectedVers(m_selected)
            /\ taskRuns' = taskRuns + 1
            /\ plan' = << >>
            /\ reviewStore' = EmptyStore
            /\ pc' = "resolving"
       ELSE /\ plan' \in reviewRows(m_selected)
            /\ reviewStore' = m_selected
            /\ pc' = "review"
            /\ UNCHANGED << request, taskRuns >>
    /\ UNCHANGED << kind, supportsFlame, m_selected, flag, okEnabled, dialogResult, faulted,
                    reqArg, reqResult >>

\* task->warnings() holds a warning for a returned dependency that changes the
\* version of a pack the request lists
versionChangeWarnings(req, ds) ==
    \E i \in DOMAIN ds : \E pv \in req : pv[1] = ds[i].pack /\ pv[2] # ds[i].ver

\* a dialog that shows the reason of a failure and never the warnings
showBox_ErrorsOnly(o, warns) == IF o = "Failed" THEN "Error" ELSE "none"

\* the failed and succeeded handlers: an Error box with the reason of a failure,
\* a Warnings box when a task that succeeded holds warnings
showBox(o, warns) ==
    IF o = "Failed" THEN "Error"
    ELSE IF o = "Succeeded" /\ warns THEN "Warnings" ELSE "none"

\* The dependency task ends with outcome o, holding the dependencies ds and other
\* warnings or none: confirm() from the return of execWithTask to the review dialog
TaskFinished(o, ds, warns) ==
    /\ pc = "resolving" /\ ~ faulted
    /\ outcome' = o
    /\ deps' = ds
    /\ taskRuns' = taskRuns - 1
    /\ shownBox' = showBox(o, warns \/ versionChangeWarnings(request, ds))
    /\ IF execWithTask(o) = "Rejected"
       THEN /\ pc' = "rejectQueued"
            /\ active' = active - 1
            /\ attemptResult' = "Aborted"
            /\ UNCHANGED << m_selected, flag, okEnabled, faulted, plan, reviewStore >>
       ELSE \E t \in mergeDependencies({ current }, ds) :
            /\ m_selected' = t.sel
            /\ flag' = t.flag
            /\ okEnabled' = t.ok
            /\ faulted' = t.faulted
            /\ IF t.faulted
               THEN UNCHANGED << pc, plan, reviewStore >>
               ELSE /\ plan' \in reviewRows(t.sel)
                    /\ reviewStore' = t.sel
                    /\ pc' = "review"
            /\ UNCHANGED << active, attemptResult >>
    /\ UNCHANGED << reqArg, reqResult, kind, supportsFlame, dialogResult, request, attempts, preStore,
                    preFlag, deselected, lastOp >>

\* The reviewer accepts with the rows named in D unchecked: confirm() to its end
ReviewAccepted(D) ==
    /\ pc = "review" /\ ~ faulted
    /\ D \subseteq { plan[i].name : i \in DOMAIN plan }
    /\ deselected' = D
    /\ m_selected' = applyReview(m_selected, TRUE, D)
    /\ dialogResult' = "accepted"
    /\ pc' = "closed"
    /\ active' = active - 1
    /\ attemptResult' = "Accepted"
    /\ UNCHANGED << reqArg, reqResult, kind, supportsFlame, flag, okEnabled, faulted, request, plan, taskRuns,
                    attempts, outcome, deps, shownBox, preStore, preFlag, reviewStore, lastOp >>

\* The reviewer cancels, with the rows named in D unchecked: confirm() returns,
\* its review dialog and its task are gone
ReviewCancelled(D) ==
    /\ pc = "review" /\ ~ faulted
    /\ D \subseteq { plan[i].name : i \in DOMAIN plan }
    /\ m_selected' = applyReview(m_selected, FALSE, D)
    /\ pc' = "idle"
    /\ active' = active - 1
    /\ attemptResult' = "Cancelled"
    /\ plan' = << >>
    /\ request' = {}
    /\ deps' = << >>
    /\ outcome' = "none"
    /\ shownBox' = "none"
    /\ UNCHANGED << reqArg, reqResult, kind, supportsFlame, flag, okEnabled, dialogResult, faulted,
                    taskRuns, attempts, preStore, preFlag, reviewStore, deselected, lastOp >>

\* ResourceDownloadDialog::reject(): the dialog closes with result Rejected
reject ==
    /\ dialogResult' = "rejected"
    /\ pc' = "closed"
    /\ UNCHANGED << reqArg, reqResult, kind, supportsFlame, m_selected, flag, okEnabled, faulted, lastOp >>
    /\ UNCHANGED attemptVars

\* QMetaObject::invokeMethod(this, "reject", Qt::QueuedConnection) is delivered
QueuedReject == pc = "rejectQueued" /\ ~ faulted /\ reject

\* The Cancel button is clicked
CancelClicked == acceptsInput /\ ~ faulted /\ reject

Next ==
    \/ \E pv \in PV : AddSelection(pv[1], pv[2])
    \/ \E pv \in PV : RemoveSelection(pv[1], pv[2])
    \/ ConfirmClicked
    \/ \E o \in Outcomes, ds \in DepLists, warns \in BOOLEAN : TaskFinished(o, ds, warns)
    \/ \E D \in SUBSET Names : ReviewAccepted(D)
    \/ \E D \in SUBSET Names : ReviewCancelled(D)
    \/ QueuedReject
    \/ CancelClicked

Spec == Init /\ [][Next]_vars

\* pack names on offer in the dialog that is followed for progress
FairNames == { NameZb }

FairPV == { pv \in PV : Pack(pv[1]).name \in FairNames }

FairDepLists == { ds \in DepLists : \A i \in DOMAIN ds : Pack(ds[i].pack).name \in FairNames }

\* the dependency task reports an outcome
Resolved ==
    \E o \in Outcomes, ds \in FairDepLists, warns \in BOOLEAN : TaskFinished(o, ds, warns)

\* the reviewer answers the review dialog
Answered == \E D \in SUBSET FairNames : ReviewAccepted(D) \/ ReviewCancelled(D)

NextFair ==
    \/ \E pv \in FairPV : AddSelection(pv[1], pv[2])
    \/ \E pv \in FairPV : RemoveSelection(pv[1], pv[2])
    \/ ConfirmClicked
    \/ Resolved
    \/ Answered
    \/ QueuedReject
    \/ CancelClicked

\* The dialog when a task that runs ends, an open review dialog is answered and
\* the event loop delivers the queued reject
SpecFair ==
    Init /\ [][NextFair]_vars /\ WF_vars(Resolved) /\ WF_vars(Answered) /\ WF_vars(QueuedReject)

----------------------------------------------------------------------------
(* Properties *)

nameOf(pv) == Pack(pv[1]).name

\* the store holds an entry for the pack of pv that carries the version of pv
selectedAs(sel, pv) ==
    /\ sel[nameOf(pv)] # NoTask
    /\ sel[nameOf(pv)].pack = pv[1]
    /\ sel[nameOf(pv)].ver = pv[2]

flagsMatch(sel, f) == \A pv \in PV : f[pv] <=> selectedAs(sel, pv)

\* C1: after any sequence of addResource and removeResource calls from the empty
\* store, a running dialog holds at most one task per pack name, and a version's
\* is_currently_selected flag is true iff the store holds a task for its pack
\* that carries this version.
C1_FlagIffSelected ==
    ~ faulted =>
        /\ \A t, u \in getTasks : Pack(t.pack).name = Pack(u.pack).name => t = u
        /\ flagsMatch(m_selected, flag)

\* C1 witness: a selected version was removed while another stays selected
C1_Witness ==
    /\ ~ faulted
    /\ lastOp.op = "remove"
    /\ lastOp.old # NoTask
    /\ \E pv \in PV : flag[pv]

\* the last call was addResource(pack, newVersion) on a store that held
\* another version under the name of pack
replacedByAdd ==
    /\ ~ faulted
    /\ lastOp.op = "add"
    /\ lastOp.old # NoTask
    /\ << lastOp.old.pack, lastOp.old.ver >> # << lastOp.pack, lastOp.ver >>

\* C2: after addResource(pack, newVersion) on a store that held oldVersion under
\* pack.name, the store holds exactly one task of that name, it carries
\* newVersion, oldVersion's flag is false and newVersion's flag is true.
C2_ReplaceClearsOldFlag ==
    replacedByAdd =>
        /\ Cardinality({ t \in getTasks : Pack(t.pack).name = Pack(lastOp.pack).name }) = 1
        /\ selectedAs(m_selected, << lastOp.pack, lastOp.ver >>)
        /\ ~ flag[<< lastOp.old.pack, lastOp.old.ver >>]
        /\ flag[<< lastOp.pack, lastOp.ver >>]

\* C2 witness: version 2 of pack 1 has replaced version 1 of pack 1
C2_Witness ==
    /\ replacedByAdd
    /\ lastOp.old.pack = lastOp.pack

planNames == { plan[i].name : i \in DOMAIN plan }

\* the container holds the page of either provider
bothPages == pages = { Modrinth, Flame }

depNames(ds) == { Pack(ds[i].pack).name : i \in DOMAIN ds }

C4_AbortLeavesStore ==
    outcome = "Aborted" =>
        /\ attemptResult = "Aborted"
        /\ plan = << >>
        /\ pc \in { "rejectQueued", "closed" }
        /\ m_selected = preStore
        /\ flag = preFlag
        /\ okEnabled

\* C4 witness: a task that had found a dependency not in the store was aborted
C4_Witness ==
    /\ outcome = "Aborted"
    /\ \E i \in DOMAIN deps : preStore[Pack(deps[i].pack).name] = NoTask
    /\ pc = "rejectQueued"

\* C5: when the reviewer accepts with the names D deselected, the store is the
\* store handed to review without the tasks named in D, every other task is
\* unchanged, and getTasks() yields exactly the tasks not deselected.
C5_AcceptRemovesDeselected ==
    attemptResult = "Accepted" =>
        /\ \A n \in Names :
            m_selected[n] = IF n \in deselected THEN NoTask ELSE reviewStore[n]
        /\ getTasks = { reviewStore[n] : n \in keysOf(reviewStore) \ deselected }
        /\ dialogResult = "accepted"

\* C5 witness: some rows were deselected and some were kept
C5_Witness ==
    /\ attemptResult = "Accepted"
    /\ deselected # {}
    /\ keysOf(m_selected) # {}
    /\ outcome = "Succeeded"

\* C6 as claimed (here for a dialog that holds both pages): in every state,
\* whatever operations led to it, a version's flag is true exactly while the
\* store holds its task; a task removed because the reviewer deselected it has
\* its flag cleared.
C6_FlagIffSelectedAlways ==
    ~ faulted /\ bothPages => flagsMatch(m_selected, flag)

\* the dependency task succeeded and its dependencies are merged
merged == pc = "review" /\ outcome = "Succeeded"

asDependency(d) == Task(d.pack, d.ver, TRUE, d.required_by)

\* no returned dependency is a (pack, version) the request already listed
newDependencies == \A i \in DOMAIN deps : << deps[i].pack, deps[i].ver >> \notin request

\* C7 as claimed (here for a dialog that holds both pages and a task that
\* returns new dependencies only): after the merge every returned dependency
\* is in the store as a task marked is_indexed, the keys are the keys before
\* the attempt and the names of the dependencies, and a task of another name
\* is unchanged.
C7_EveryDependencyStored ==
    merged /\ bothPages /\ newDependencies =>
        /\ \A i \in DOMAIN deps : m_selected[Pack(deps[i].pack).name] = asDependency(deps[i])
        /\ keysOf(m_selected) = keysOf(preStore) \cup depNames(deps)
        /\ \A n \in Names \ depNames(deps) : m_selected[n] = preStore[n]

\* C7 amended: after the merge the store holds, for every name among the
\* dependencies, the last returned dependency of that name as a task marked
\* is_indexed (it replaces a task the store had for the name, and an earlier
\* dependency of the same name); the keys are the keys before the attempt
\* and the names of the dependencies; a task of another name is unchanged.
C7_LastDependencyStored ==
    merged =>
        /\ \A i \in DOMAIN deps :
            (\A j \in DOMAIN deps : j > i => Pack(deps[j].pack).name # Pack(deps[i].pack).name)
                => m_selected[Pack(deps[i].pack).name] = asDependency(deps[i])
        /\ keysOf(m_selected) = keysOf(preStore) \cup depNames(deps)
        /\ \A n \in Names \ depNames(deps) : m_selected[n] = preStore[n]

\* C7 witness: a dependency replaced another version selected under its name
C7_Witness ==
    /\ merged
    /\ \E i \in DOMAIN deps :
        LET n == Pack(deps[i].pack).name
        IN  /\ preStore[n] # NoTask
            /\ ~ preStore[n].is_indexed
            /\ << preStore[n].pack, preStore[n].ver >> # << deps[i].pack, deps[i].ver >>
            /\ m_selected[n] = asDependency(deps[i])

\* C8: a plan handed to review has exactly one row for every task the store
\* holds when the plan is built, dependencies merged in the same attempt
\* included, and no other row, and its rows are in ascending order of name
\* without regard to case.
C8_PlanRowsSorted ==
    pc = "review" /\ ~ faulted =>
        /\ planNames = keysOf(m_selected)
        /\ Len(plan) = Cardinality(keysOf(m_selected))
        /\ \A i \in DOMAIN plan :
            plan[i].filename = << m_selected[plan[i].name].pack, m_selected[plan[i].name].ver >>
        /\ \A i, j \in DOMAIN plan : i < j => ~ Less(plan[j].name, plan[i].name, CaseInsensitive)

\* C8 witness: three rows, one of them a dependency, "a" ahead of "Zb"
C8_Witness ==
    /\ pc = "review"
    /\ Len(plan) = 3
    /\ plan[1].name = NameA
    /\ \E i \in DOMAIN deps : preStore[Pack(deps[i].pack).name] = NoTask

C11_CancelLeavesStore ==
    [][ pc = "review" /\ pc' = "idle" =>
            /\ attemptResult' = "Cancelled"
            /\ m_selected' = m_selected
            /\ flag' = flag
            /\ okEnabled' = okEnabled
            /\ dialogResult' = "none"
            /\ active' = 0 ]_vars

\* C11 witness: a review of a plan with merged dependencies was cancelled
C11_Witness ==
    /\ attemptResult = "Cancelled"
    /\ pc = "idle"
    /\ dialogResult = "none"
    /\ m_selected = reviewStore
    /\ m_selected # preStore

\* names of the selected entries whose pack has addon id r
matching(sel, r) == { n \in keysOf(sel) : Pack(sel[n].pack).addonId = r }

\* positions of the request whose id belongs to a selected entry
hits(sel, req_by) == { i \in DOMAIN req_by : matching(sel, req_by[i]) # {} }

requiredByNames(sel, req_by, res) ==
    /\ Len(res) <= Len(req_by)
    /\ \A k \in DOMAIN res : res[k] \in keysOf(sel)
    /\ Len(res) = Cardinality(hits(sel, req_by))
    /\ \A i \in hits(sel, req_by) :
          res[Cardinality({ j \in hits(sel, req_by) : j <= i })] \in matching(sel, req_by[i])

\* C12: getReqiredBy(req_by) returns, in request order, one name of a selected
\* entry with that addon id for each requested id that has one and nothing for
\* the other ids: the result is no longer than the request, holds only names
\* of store entries, and the call leaves the store and the flags as they were.
C12_RequiredByNames ==
    /\ [](requiredByNames(m_selected, reqArg, reqResult))
    /\ [][ reqArg' # << >> => m_selected' = m_selected /\ flag' = flag ]_vars

\* C12 witness: two selected entries are requested in the reverse of key order
C12_Witness ==
    /\ Len(reqArg) = 2
    /\ reqArg[1] = Pack(4).addonId /\ reqArg[2] = Pack(3).addonId
    /\ reqResult = << Namezb, NameA >>

\* C13 as claimed (here for a dialog that holds both pages): in every state the
\* Ok button is enabled exactly when the store is not empty, also after the
\* dependencies were merged and after the deselections of a review were applied.
C13_OkIffNonEmpty ==
    ~ faulted /\ bothPages => (okEnabled <=> keysOf(m_selected) # {})

\* a returned dependency replaced the selected version of its pack by another
versionReplaced ==
    \E i \in DOMAIN deps :
        /\ preStore[Pack(deps[i].pack).name] # NoTask
        /\ preStore[Pack(deps[i].pack).name].pack = deps[i].pack
        /\ preStore[Pack(deps[i].pack).name].ver # deps[i].ver

C15_MissingPageIsNoOp ==
    ~ bothPages => ~ faulted

\* the call recorded in lastOp found no entry under the name of its pack
removeOfAbsent(op) == op.op = "remove" /\ op.old = NoTask

\* the call recorded in lastOp found its (pack, version) as the selected entry
duplicateAdd(op) ==
    /\ op.op = "add"
    /\ op.old # NoTask
    /\ op.old.pack = op.pack /\ op.old.ver = op.ver

\* C16: a removeResource for a pack whose name the store does not hold, when
\* it returns, leaves the store, the flags and the Ok button as they were; an
\* addResource of the (pack, version) that is the selected entry, when it
\* returns, leaves the same single entry under that name, the version's flag
\* true and every other flag as it was.
C16_DuplicateCallsAreNoOps ==
    [][ ~ faulted' =>
            /\ removeOfAbsent(lastOp') =>
                    m_selected' = m_selected /\ flag' = flag /\ okEnabled' = okEnabled
            /\ duplicateAdd(lastOp') =>
                    /\ m_selected' = m_selected
                    /\ selectedAs(m_selected', << lastOp'.pack, lastOp'.ver >>)
                    /\ flag'[<< lastOp'.pack, lastOp'.ver >>]
                    /\ flag' = flag
                    /\ okEnabled' ]_vars

\* C16 witness: with another pack selected, the selected version 2 of pack 1 was added again
C16_Witness ==
    /\ ~ faulted
    /\ duplicateAdd(lastOp)
    /\ lastOp.pack = 1 /\ lastOp.ver = 2
    /\ selectedAs(m_selected, << 1, 2 >>)
    /\ m_selected[NameA] # NoTask

attemptStep ==
    /\ pc = "idle" /\ pc' # "idle" =>
            \/ pc' = "resolving" /\ hasDependenciesTask(kind) /\ active' = 1
            \/ pc' = "review" /\ ~ hasDependenciesTask(kind) /\ active' = 1
            \/ pc' = "closed" /\ dialogResult' = "rejected" /\ active' = 0
    /\ pc = "resolving" /\ pc' # "resolving" =>
            \/ /\ outcome' \in { "Aborted", "Failed" }
               /\ attemptResult' = "Aborted"
               /\ pc' = "rejectQueued" /\ active' = 0
               /\ m_selected' = m_selected
            \/ /\ outcome' = "Succeeded"
               /\ pc' = "review" /\ active' = 1
    /\ pc = "review" /\ pc' # "review" =>
            \/ /\ attemptResult' = "Accepted"
               /\ pc' = "closed" /\ dialogResult' = "accepted" /\ active' = 0
            \/ /\ attemptResult' = "Cancelled"
               /\ pc' = "idle" /\ dialogResult' = "none" /\ active' = 0
               /\ m_selected' = m_selected
    /\ pc = "rejectQueued" /\ pc' # "rejectQueued" =>
            pc' = "closed" /\ dialogResult' = "rejected"
    /\ pc = "closed" => pc' = "closed"
    /\ pc # "review" /\ pc' = "review" =>
            \/ pc = "resolving" /\ outcome' = "Succeeded"
            \/ pc = "idle" /\ ~ hasDependenciesTask(kind)
    /\ pc = "review" /\ m_selected' # m_selected =>
            /\ attemptResult' = "Accepted"
            /\ m_selected' = removeDeselected(m_selected, deselected')

C18_NoTaskNoResolution ==
    kind # "mod" =>
        /\ taskRuns = 0
        /\ request = {}
        /\ outcome = "none" /\ deps = << >> /\ shownBox = "none"
        /\ pc \notin { "resolving", "rejectQueued" }
        /\ pc = "review" =>
            /\ m_selected = preStore
            /\ flag = preFlag
            /\ reviewStore = preStore
            /\ plan \in reviewRows(preStore)
            /\ planNames = keysOf(preStore)
            /\ Len(plan) = Cardinality(keysOf(preStore))

\* C18 witness: a resource pack dialog reviews its second attempt, two packs selected
C18_Witness ==
    /\ kind = "resourcepack"
    /\ pc = "review"
    /\ attempts = 2
    /\ Len(plan) = 2
    /\ m_selected = preStore

\* C19: each name in the required_by of a row of the plan under review is the
\* name of a row of that plan.
C19_RequiredByInPlan ==
    pc = "review" =>
        \A i \in DOMAIN plan :
            \A k \in DOMAIN plan[i].required_by : plan[i].required_by[k] \in planNames

\* C19 witness: a merged dependency names two requirers, one of them not
\* selected, and its row lists the selected one alone
C19_Witness ==
    /\ merged
    /\ \E i \in DOMAIN plan :
        /\ Len(reviewStore[plan[i].name].required_by) = 2
        /\ Len(plan[i].required_by) = 1
        /\ plan[i].required_by[1] # plan[i].name

====
